---------------------------- MODULE Spec2Model ----------------------------
(***************************************************************************)
(* Model of the PDF reports backend (backend/server.py): the directory     *)
(* scanner, the document extractor, the date filter, the search engine and *)
(* the four request handlers that drive them.                              *)
(*                                                                         *)
(* Strings are sequences of one-character strings, so that lower(),        *)
(* strip(), `in`, find(), slicing and re.split() are computed character by *)
(* character.  The alphabet is ASCII.  A datetime is a record              *)
(* [date, tod, tzinfo]: a day number, the second of the day and the tzinfo *)
(* object (None for a naive datetime); naive datetimes compare             *)
(* lexicographically on (date, tod).                                       *)
(***************************************************************************)
EXTENDS Integers, Sequences, FiniteSets, TLC

VARIABLES
    reports_exists,   \* REPORTS_DIR.exists()
    reports,          \* the entries of REPORTS_DIR, in enumeration order
    pc,               \* "idle": no request in progress; "done": a response is ready
    request,          \* the request being served (None when idle)
    response          \* the outcome of the handler (None when idle)

vars == <<reports_exists, reports, pc, request, response>>

\* Python's None, the value of an absent optional object
None == [none |-> TRUE]

(***************************************************************************)
(* Bounds of the model.                                                    *)
(***************************************************************************)
MaxFiles == 2     \* files enumerated in one folder
MaxDay == 2       \* day numbers 1..MaxDay for cutoffs and the clock

(***************************************************************************)
(* Characters and Python's str operations.                                 *)
(***************************************************************************)
UpperCase == <<"A","B","C","D","E","F","G","H","I","J","K","L","M",
               "N","O","P","Q","R","S","T","U","V","W","X","Y","Z">>
LowerCase == <<"a","b","c","d","e","f","g","h","i","j","k","l","m",
               "n","o","p","q","r","s","t","u","v","w","x","y","z">>
Digits == <<"0","1","2","3","4","5","6","7","8","9">>

\* the code point of a character (str comparison orders by code point)
Ord(c) ==
    IF \E i \in 1..26 : UpperCase[i] = c
    THEN 64 + (CHOOSE i \in 1..26 : UpperCase[i] = c)
    ELSE IF \E i \in 1..26 : LowerCase[i] = c
    THEN 96 + (CHOOSE i \in 1..26 : LowerCase[i] = c)
    ELSE IF \E i \in 1..10 : Digits[i] = c
    THEN 47 + (CHOOSE i \in 1..10 : Digits[i] = c)
    ELSE CASE c = "\t" -> 9
           [] c = "\n" -> 10
           [] c = " " -> 32
           [] c = "!" -> 33
           [] c = "$" -> 36
           [] c = "-" -> 45
           [] c = "." -> 46
           [] c = ":" -> 58
           [] c = "?" -> 63
           [] c = "_" -> 95

\* the lower-case letter of each upper-case letter
ToLower ==
    [c \in {UpperCase[i] : i \in 1..26} |->
        LowerCase[CHOOSE i \in 1..26 : UpperCase[i] = c]]

\* str.lower() on one character
LowerChar(c) == IF c \in DOMAIN ToLower THEN ToLower[c] ELSE c

\* str.lower()
lower(s) == [i \in 1..Len(s) |-> LowerChar(s[i])]

\* the characters str.strip() removes
Whitespace == {" ", "\t", "\n", "\r", "\f"}

\* the index of the first character of s at or after i that strip() keeps,
\* or Len(s) + 1
RECURSIVE lstrip_index(_, _)
lstrip_index(s, i) ==
    IF i > Len(s) \/ s[i] \notin Whitespace THEN i ELSE lstrip_index(s, i + 1)

\* the index of the last character of s at or before i that strip() keeps,
\* or 0
RECURSIVE rstrip_index(_, _)
rstrip_index(s, i) ==
    IF i = 0 \/ s[i] \notin Whitespace THEN i ELSE rstrip_index(s, i - 1)

\* str.strip()
strip(s) == SubSeq(s, lstrip_index(s, 1), rstrip_index(s, Len(s)))

\* needle in hay
contains(hay, needle) ==
    \E i \in 0..(Len(hay) - Len(needle)) :
        \A k \in 1..Len(needle) : hay[i + k] = needle[k]

\* hay.find(needle): the lowest 0-based index of an occurrence, or -1
find(hay, needle) ==
    LET occ == {i \in 0..(Len(hay) - Len(needle)) :
                    \A k \in 1..Len(needle) : hay[i + k] = needle[k]}
    IN  IF occ = {} THEN -1
        ELSE CHOOSE i \in occ : \A j \in occ : i <= j

\* s.startswith(prefix)
startswith(s, prefix) ==
    /\ Len(prefix) <= Len(s)
    /\ \A k \in 1..Len(prefix) : s[k] = prefix[k]

\* s.endswith(suffix)
endswith(s, suffix) ==
    /\ Len(suffix) <= Len(s)
    /\ \A k \in 1..Len(suffix) : s[Len(s) - Len(suffix) + k] = suffix[k]

\* s[start:end] for 0 <= start, end <= len(s)
slice(s, start, end) == SubSeq(s, start + 1, end)

\* a < b on str: lexicographic by code point
StrLess(a, b) ==
    \/ /\ Len(a) < Len(b)
       /\ \A k \in 1..Len(a) : a[k] = b[k]
    \/ \E i \in 1..(IF Len(a) < Len(b) THEN Len(a) ELSE Len(b)) :
          /\ \A k \in 1..(i - 1) : a[k] = b[k]
          /\ Ord(a[i]) < Ord(b[i])

\* the elements of a set of integers in increasing order
SortedSeq(S) ==
    [k \in 1..Cardinality(S) |->
        CHOOSE x \in S : Cardinality({y \in S : y < x}) = k - 1]

\* the characters of the pattern [.!?]
Delimiters == {".", "!", "?"}

\* re_split with every run of delimiters left at the end of the segment it
\* closes
re_split_keeping_delimiters(text) ==
    LET n == Len(text)
        isDelim(i) == text[i] \in Delimiters
        closes(j) == j = n \/ (isDelim(j) /\ ~isDelim(j + 1))
        starts == {i \in 1..n : ~isDelim(i) /\ (i = 1 \/ isDelim(i - 1))}
        endOf(i) == CHOOSE j \in i..n :
                        closes(j) /\ \A k \in i..(j - 1) : ~closes(k)
        order == SortedSeq(starts)
        runs == [k \in 1..Len(order) |-> SubSeq(text, order[k], endOf(order[k]))]
    IN  IF n = 0 THEN << <<>> >>
        ELSE (IF isDelim(1) THEN << <<>> >> ELSE <<>>) \o runs

\* re.split(r'[.!?]+', text)
re_split(text) ==
    LET n == Len(text)
        isDelim(i) == text[i] \in Delimiters
        starts == {i \in 1..n : ~isDelim(i) /\ (i = 1 \/ isDelim(i - 1))}
        endOf(i) == CHOOSE j \in i..n :
                        /\ (j = n \/ isDelim(j + 1))
                        /\ \A k \in i..j : ~isDelim(k)
        order == SortedSeq(starts)
        runs == [k \in 1..Len(order) |-> SubSeq(text, order[k], endOf(order[k]))]
    IN  IF n = 0 THEN << <<>> >>
        ELSE (IF isDelim(1) THEN << <<>> >> ELSE <<>>)
             \o runs
             \o (IF isDelim(n) THEN << <<>> >> ELSE <<>>)


(***************************************************************************)
(* Datetimes.                                                              *)
(***************************************************************************)
\* datetime(date, tod) with the given tzinfo
datetime(date, tod, tzinfo) == [date |-> date, tod |-> tod, tzinfo |-> tzinfo]

\* timezone(timedelta(hours=offset))
timezone(offset) == [utcoffset |-> offset]

\* dt.replace(tzinfo=None): drops the offset, keeps the wall-clock fields
replace_tzinfo_none(dt) == [dt EXCEPT !.tzinfo = None]

\* a <= b on two naive datetimes
datetime_le(a, b) ==
    \/ a.date < b.date
    \/ a.date = b.date /\ a.tod <= b.tod

\* time(23, 59, 59) as the second of the day
EndOfDay == 23 * 3600 + 59 * 60 + 59

(***************************************************************************)
(* The file system under REPORTS_DIR.  A file is a record                  *)
(*   name      its base name                                               *)
(*   is_file   FALSE for a directory                                       *)
(*   stat_ok   FALSE when stat() raises (the entry is enumerated but has   *)
(*             vanished or is unreadable)                                  *)
(*   st_size, st_ctime, st_mtime   what stat() reports                     *)
(*   pages     the text of each page, as PyMuPDF returns it                *)
(*   fails_at  0 when fitz reads the file; k > 0 when fitz raises at       *)
(*             step k (opening the file or reading a page)                 *)
(***************************************************************************)
REPORTS_DIR == <<"/","a","p","p","/","r","e","p","o","r","t","s">>

dot_pdf == <<".","p","d","f">>

\* a string of n copies of the character c
Pad(n, c) == [i \in 1..n |-> c]

\* the concatenation of a sequence of strings
RECURSIVE Concat(_)
Concat(ss) == IF ss = <<>> THEN <<>> ELSE Head(ss) \o Concat(Tail(ss))

\* extract_pdf_metadata_and_text without the reset of the inner except: the
\* text of the pages read before fitz raised is kept
extract_keeps_partial_text(folder, file) ==
    IF ~file.stat_ok
    THEN None
    ELSE LET text_content ==
                 IF file.fails_at = 0
                 THEN Concat(file.pages)
                 ELSE Concat(SubSeq(file.pages, 1, file.fails_at - 1))
         IN  [filename |-> file.name,
              filepath |-> <<REPORTS_DIR, folder, file.name>>,
              folder |-> folder,
              size |-> file.st_size,
              created_date |-> datetime(file.st_ctime[1], file.st_ctime[2], None),
              modified_date |-> datetime(file.st_mtime[1], file.st_mtime[2], None),
              text_content |-> strip(text_content)]

\* extract_pdf_metadata_and_text(pdf_path), pdf_path = REPORTS_DIR/folder/file.name
extract_pdf_metadata_and_text(folder, file) ==
    IF ~file.stat_ok
    THEN None    \* stat() raised: the outer except returns None
    ELSE LET text_content ==
                 IF file.fails_at = 0
                 THEN Concat(file.pages)
                 ELSE <<>>    \* the inner except resets the text to ""
         IN  [filename |-> file.name,
              filepath |-> <<REPORTS_DIR, folder, file.name>>,
              folder |-> folder,
              size |-> file.st_size,
              created_date |-> datetime(file.st_ctime[1], file.st_ctime[2], None),
              modified_date |-> datetime(file.st_mtime[1], file.st_mtime[2], None),
              text_content |-> strip(text_content)]

\* folder_path.glob("*.pdf"): the entries whose name ends in ".pdf"
glob_pdf(files) ==
    LET matches(f) == endswith(f.name, dot_pdf)
    IN  SelectSeq(files, matches)

\* scan_folder giving up on a folder at the first file that cannot be read
RECURSIVE scan_folder_stopping_at_failure(_, _)
scan_folder_stopping_at_failure(folder_name, files) ==
    IF files = <<>> THEN <<>>
    ELSE LET pdf_data == extract_pdf_metadata_and_text(folder_name, Head(files))
         IN  IF pdf_data # None
             THEN <<pdf_data>> \o scan_folder_stopping_at_failure(folder_name, Tail(files))
             ELSE <<>>

\* the pdfs list scan_reports_directory builds for one folder
RECURSIVE scan_folder(_, _)
scan_folder(folder_name, files) ==
    IF files = <<>> THEN <<>>
    ELSE LET pdf_data == extract_pdf_metadata_and_text(folder_name, Head(files))
         IN  (IF pdf_data # None THEN <<pdf_data>> ELSE <<>>)
             \o scan_folder(folder_name, Tail(files))

\* scan_entries without the is_dir() test: every entry becomes a folder
RECURSIVE scan_entries_without_is_dir(_)
scan_entries_without_is_dir(entries) ==
    IF entries = <<>> THEN <<>>
    ELSE LET folder_path == Head(entries)
         IN  << [name |-> folder_path.name,
                 pdfs |-> scan_folder(folder_path.name,
                                      glob_pdf(folder_path.files))] >>
             \o scan_entries_without_is_dir(Tail(entries))

\* the loop over REPORTS_DIR.iterdir(): one item per directory entry
RECURSIVE scan_entries(_)
scan_entries(entries) ==
    IF entries = <<>> THEN <<>>
    ELSE LET folder_path == Head(entries)
         IN  (IF folder_path.is_dir
              THEN << [name |-> folder_path.name,
                       pdfs |-> scan_folder(folder_path.name,
                                            glob_pdf(folder_path.files))] >>
              ELSE <<>>)
             \o scan_entries(Tail(entries))

\* scan_reports_directory(): the dict folder name -> pdfs, as the sequence of
\* its items in insertion order
scan_reports_directory(exists, entries) ==
    IF ~exists THEN <<>> ELSE scan_entries(entries)

\* filter_pdfs_by_date with < in place of <=
filter_pdfs_strictly_before(pdfs, target_datetime) ==
    LET target == replace_tzinfo_none(target_datetime)
        keep(pdf) == /\ datetime_le(replace_tzinfo_none(pdf.modified_date), target)
                     /\ replace_tzinfo_none(pdf.modified_date) # target
    IN  SelectSeq(pdfs, keep)

\* filter_pdfs_by_date comparing the times of day only
filter_pdfs_by_time_of_day(pdfs, target_datetime) ==
    LET keep(pdf) == pdf.modified_date.tod <= target_datetime.tod
    IN  SelectSeq(pdfs, keep)

\* filter_pdfs_by_date(pdfs, target_datetime)
filter_pdfs_by_date(pdfs, target_datetime) ==
    LET target == IF target_datetime.tzinfo # None
                  THEN replace_tzinfo_none(target_datetime)
                  ELSE target_datetime
        keep(pdf) == datetime_le(replace_tzinfo_none(pdf.modified_date), target)
    IN  SelectSeq(pdfs, keep)

(***************************************************************************)
(* The search engine.                                                      *)
(***************************************************************************)
FilenamePrefix == <<"F","i","l","e","n","a","m","e",":"," ">>
ContentPrefix == <<"C","o","n","t","e","n","t",":"," ">>
ContentTag == <<"C","o","n","t","e","n","t",":">>
Ellipsis == <<".",".",".">>

SentenceLimit == 200   \* len(sentence) > 200: the sentence is windowed
ContextRadius == 100   \* pos - 100 and pos + 100
MinContextLen == 10    \* len(context) > 10
MaxContentMatches == 3 \* content matches per PDF

Max(a, b) == IF a > b THEN a ELSE b
Min(a, b) == IF a < b THEN a ELSE b

\* sentence_context with the window ending 100 characters past the end of the
\* occurrence instead of 100 characters past its start
sentence_context_past_occurrence(sentence, search_term_lower) ==
    IF Len(sentence) > SentenceLimit
    THEN LET pos == find(lower(sentence), search_term_lower)
             start == Max(0, pos - ContextRadius)
             end == Min(Len(sentence), pos + Len(search_term_lower) + ContextRadius)
             window == strip(slice(sentence, start, end))
             left == IF start > 0 THEN Ellipsis \o window ELSE window
         IN  IF end < Len(sentence) THEN left \o Ellipsis ELSE left
    ELSE strip(sentence)

\* the context built for a sentence that contains the search term
sentence_context(sentence, search_term_lower) ==
    IF Len(sentence) > SentenceLimit
    THEN LET pos == find(lower(sentence), search_term_lower)
             start == Max(0, pos - ContextRadius)
             end == Min(Len(sentence), pos + ContextRadius)
             window == strip(slice(sentence, start, end))
             left == IF start > 0 THEN Ellipsis \o window ELSE window
         IN  IF end < Len(sentence) THEN left \o Ellipsis ELSE left
    ELSE strip(sentence)

\* len([m for m in matches if m.startswith("Content:")])
content_matches(matches) ==
    Cardinality({i \in 1..Len(matches) : startswith(matches[i], ContentTag)})

\* scan_sentences with match_count incremented for a discarded context too
RECURSIVE scan_sentences_counting_discarded(_, _, _)
scan_sentences_counting_discarded(sentences, search_term_lower, acc) ==
    IF sentences = <<>> THEN acc
    ELSE LET sentence == Head(sentences)
         IN  IF contains(lower(sentence), search_term_lower)
             THEN LET context == sentence_context(sentence, search_term_lower)
                      next == IF context # <<>> /\ Len(context) > MinContextLen
                              THEN [matches |-> Append(acc.matches, ContentPrefix \o context),
                                    match_count |-> acc.match_count + 1]
                              ELSE [acc EXCEPT !.match_count = @ + 1]
                  IN  IF content_matches(next.matches) >= MaxContentMatches
                      THEN next
                      ELSE scan_sentences_counting_discarded(
                               Tail(sentences), search_term_lower, next)
             ELSE scan_sentences_counting_discarded(
                      Tail(sentences), search_term_lower, acc)

\* scan_sentences without the break at three content matches
RECURSIVE scan_sentences_without_break(_, _, _)
scan_sentences_without_break(sentences, search_term_lower, acc) ==
    IF sentences = <<>> THEN acc
    ELSE LET sentence == Head(sentences)
         IN  IF contains(lower(sentence), search_term_lower)
             THEN LET context == sentence_context(sentence, search_term_lower)
                      next == IF context # <<>> /\ Len(context) > MinContextLen
                              THEN [matches |-> Append(acc.matches, ContentPrefix \o context),
                                    match_count |-> acc.match_count + 1]
                              ELSE acc
                  IN  scan_sentences_without_break(
                          Tail(sentences), search_term_lower, next)
             ELSE scan_sentences_without_break(
                      Tail(sentences), search_term_lower, acc)

\* scan_sentences testing the length of windowed contexts only: a short
\* sentence is recorded whatever its length
RECURSIVE scan_sentences_keeping_short_noise(_, _, _)
scan_sentences_keeping_short_noise(sentences, search_term_lower, acc) ==
    IF sentences = <<>> THEN acc
    ELSE LET sentence == Head(sentences)
         IN  IF contains(lower(sentence), search_term_lower)
             THEN LET context == sentence_context(sentence, search_term_lower)
                      next == IF \/ Len(sentence) <= SentenceLimit
                                 \/ Len(context) > MinContextLen
                              THEN [matches |-> Append(acc.matches, ContentPrefix \o context),
                                    match_count |-> acc.match_count + 1]
                              ELSE acc
                  IN  IF content_matches(next.matches) >= MaxContentMatches
                      THEN next    \* break
                      ELSE scan_sentences_keeping_short_noise(
                               Tail(sentences), search_term_lower, next)
             ELSE scan_sentences_keeping_short_noise(
                      Tail(sentences), search_term_lower, acc)

\* the loop over the sentences of one PDF; acc = [matches, match_count]
RECURSIVE scan_sentences(_, _, _)
scan_sentences(sentences, search_term_lower, acc) ==
    IF sentences = <<>> THEN acc
    ELSE LET sentence == Head(sentences)
         IN  IF contains(lower(sentence), search_term_lower)
             THEN LET context == sentence_context(sentence, search_term_lower)
                      next == IF context # <<>> /\ Len(context) > MinContextLen
                              THEN [matches |-> Append(acc.matches, ContentPrefix \o context),
                                    match_count |-> acc.match_count + 1]
                              ELSE acc
                  IN  IF content_matches(next.matches) >= MaxContentMatches
                      THEN next    \* break
                      ELSE scan_sentences(Tail(sentences), search_term_lower, next)
             ELSE scan_sentences(Tail(sentences), search_term_lower, acc)

\* the body of the loop over pdfs: the matches and match count of one PDF
pdf_matches(pdf, search_term_lower) ==
    LET in_filename ==
            IF contains(lower(pdf.filename), search_term_lower)
            THEN [matches |-> <<FilenamePrefix \o pdf.filename>>, match_count |-> 1]
            ELSE [matches |-> <<>>, match_count |-> 0]
    IN  IF pdf.text_content # <<>>
           /\ contains(lower(pdf.text_content), search_term_lower)
        THEN scan_sentences(re_split(pdf.text_content), search_term_lower, in_filename)
        ELSE in_filename

\* sort_key_less with the key (x.match_count, x.pdf.filename): fewest matches first
sort_key_less_ascending(a, b) ==
    \/ a.match_count < b.match_count
    \/ /\ a.match_count = b.match_count
       /\ StrLess(a.pdf.filename, b.pdf.filename)

\* the sort key (-x.match_count, x.pdf.filename) of a precedes that of b
sort_key_less(a, b) ==
    \/ -a.match_count < -b.match_count
    \/ /\ a.match_count = b.match_count
       /\ StrLess(a.pdf.filename, b.pdf.filename)

\* results.sort(key=...): a stable sort
sort_results(results) ==
    LET n == Len(results)
        before(i, j) == \/ sort_key_less(results[i], results[j])
                        \/ /\ ~sort_key_less(results[j], results[i])
                           /\ i < j
        rank(i) == Cardinality({j \in 1..n : j # i /\ before(j, i)})
    IN  [k \in 1..n |-> results[CHOOSE i \in 1..n : rank(i) = k - 1]]

\* the results list before the sort: one SearchResult per PDF with matches
RECURSIVE collect_results(_, _)
collect_results(pdfs, search_term_lower) ==
    IF pdfs = <<>> THEN <<>>
    ELSE LET pdf == Head(pdfs)
             m == pdf_matches(pdf, search_term_lower)
         IN  (IF m.matches # <<>>
              THEN << [pdf |-> pdf, matches |-> m.matches, match_count |-> m.match_count] >>
              ELSE <<>>)
             \o collect_results(Tail(pdfs), search_term_lower)

\* search_pdfs without the early return for a blank search term
search_pdfs_without_blank_check(pdfs, search_term) ==
    sort_results(collect_results(pdfs, lower(search_term)))

\* search_pdfs(pdfs, search_term)
search_pdfs(pdfs, search_term) ==
    IF strip(search_term) = <<>> THEN <<>>
    ELSE sort_results(collect_results(pdfs, lower(search_term)))

(***************************************************************************)
(* Exceptions and the HTTP layer.  The outcome of a block of code is       *)
(* either a returned value or a raised exception.                          *)
(***************************************************************************)
Return(value) == [raised |-> FALSE, value |-> value]
Raise(exc) == [raised |-> TRUE, exc |-> exc]

HTTPException(status_code, detail) ==
    [type |-> "HTTPException", status_code |-> status_code, detail |-> detail]
ValueError == [type |-> "ValueError"]

\* try: body / except Exception: raise HTTPException(status_code=500, ...)
\* HTTPException is itself a subclass of Exception, so the handler catches
\* every exception the body raises, the HTTPExceptions of the body included.
except_Exception(body) ==
    IF body.raised
    THEN Raise(HTTPException(500, "Internal server error"))
    ELSE body

\* what the framework sends for the outcome of an endpoint function
http_response(outcome) ==
    IF outcome.raised
    THEN [status_code |-> outcome.exc.status_code, detail |-> outcome.exc.detail]
    ELSE [status_code |-> 200, body |-> outcome.value]

(***************************************************************************)
(* The target_datetime query parameter.  A string is represented by what   *)
(* it spells: form "naive" is an ISO-8601 datetime without offset, "Z" one *)
(* that ends in the letter Z, "offset" one that ends in +HH:MM, "empty"    *)
(* the empty string, "garbage" any other text.                             *)
(***************************************************************************)
TargetString(form, date, tod, offset) ==
    [form |-> form, date |-> date, tod |-> tod, offset |-> offset]

\* target_datetime.replace('Z', '+00:00')
replace_Z(s) ==
    IF s.form = "Z" THEN [s EXCEPT !.form = "offset", !.offset = 0] ELSE s

\* datetime.fromisoformat(s)
fromisoformat(s) ==
    CASE s.form = "naive" -> Return(datetime(s.date, s.tod, None))
      [] s.form = "offset" -> Return(datetime(s.date, s.tod, timezone(s.offset)))
      [] OTHER -> Raise(ValueError)

\* bool(target_datetime) for an Optional[str]
truthy(target_datetime) ==
    target_datetime # None /\ target_datetime.form # "empty"

\* datetime.combine(datetime.now().date(), time(23, 59, 59))
default_filter_datetime(now) == datetime(now.date, EndOfDay, None)

(***************************************************************************)
(* The endpoint functions.                                                 *)
(***************************************************************************)
\* result.sort(key=lambda x: x.name)
sort_folders(result) ==
    LET n == Len(result)
        before(i, j) == \/ StrLess(result[i].name, result[j].name)
                        \/ /\ ~StrLess(result[j].name, result[i].name)
                           /\ i < j
        rank(i) == Cardinality({j \in 1..n : j # i /\ before(j, i)})
    IN  [k \in 1..n |-> result[CHOOSE i \in 1..n : rank(i) = k - 1]]

\* folder_infos counting the scanned documents instead of the filtered ones
RECURSIVE folder_infos_counting_scanned(_, _)
folder_infos_counting_scanned(folders_data, filter_datetime) ==
    IF folders_data = <<>> THEN <<>>
    ELSE LET filtered_pdfs ==
                 filter_pdfs_by_date(Head(folders_data).pdfs, filter_datetime)
         IN  << [name |-> Head(folders_data).name,
                 pdf_count |-> Len(Head(folders_data).pdfs),
                 pdfs |-> filtered_pdfs] >>
             \o folder_infos_counting_scanned(Tail(folders_data), filter_datetime)

\* the FolderInfo list get_folders builds for a parsed cutoff
RECURSIVE folder_infos(_, _)
folder_infos(folders_data, filter_datetime) ==
    IF folders_data = <<>> THEN <<>>
    ELSE LET filtered_pdfs ==
                 filter_pdfs_by_date(Head(folders_data).pdfs, filter_datetime)
         IN  << [name |-> Head(folders_data).name,
                 pdf_count |-> Len(filtered_pdfs),
                 pdfs |-> filtered_pdfs] >>
             \o folder_infos(Tail(folders_data), filter_datetime)

\* get_folders(target_datetime), with the clock reading now
get_folders(exists, entries, target_datetime, now) ==
    LET folders_data == scan_reports_directory(exists, entries)
        parsed == IF truthy(target_datetime)
                  THEN fromisoformat(replace_Z(target_datetime))
                  ELSE Return(default_filter_datetime(now))
        body == IF parsed.raised
                THEN Raise(HTTPException(400, "Invalid datetime format"))
                ELSE Return(sort_folders(folder_infos(folders_data, parsed.value)))
    IN  except_Exception(body)

\* all_pdfs.extend(pdfs) over folders_data.values()
RECURSIVE all_pdfs_of(_)
all_pdfs_of(folders_data) ==
    IF folders_data = <<>> THEN <<>>
    ELSE Head(folders_data).pdfs \o all_pdfs_of(Tail(folders_data))

\* search_pdfs_endpoint searching every scanned document, whatever the cutoff
search_pdfs_endpoint_without_filter(exists, entries, q, target_datetime, now) ==
    LET all_pdfs == all_pdfs_of(scan_reports_directory(exists, entries))
        parsed == IF truthy(target_datetime)
                  THEN fromisoformat(replace_Z(target_datetime))
                  ELSE Return(default_filter_datetime(now))
        body == IF strip(q) = <<>>
                THEN Return(<<>>)
                ELSE IF parsed.raised
                THEN Raise(HTTPException(400, "Invalid datetime format"))
                ELSE Return(search_pdfs(all_pdfs, q))
    IN  except_Exception(body)

\* search_pdfs_endpoint(q, target_datetime), with the clock reading now
search_pdfs_endpoint(exists, entries, q, target_datetime, now) ==
    LET all_pdfs == all_pdfs_of(scan_reports_directory(exists, entries))
        parsed == IF truthy(target_datetime)
                  THEN fromisoformat(replace_Z(target_datetime))
                  ELSE Return(default_filter_datetime(now))
        body == IF strip(q) = <<>>
                THEN Return(<<>>)
                ELSE IF parsed.raised
                THEN Raise(HTTPException(400, "Invalid datetime format"))
                ELSE Return(search_pdfs(filter_pdfs_by_date(all_pdfs, parsed.value), q))
    IN  except_Exception(body)

\* the entry REPORTS_DIR / folder_name / filename names, or None
lookup(exists, entries, folder_name, filename) ==
    LET dirs == {i \in 1..Len(entries) :
                    entries[i].is_dir /\ entries[i].name = folder_name}
    IN  IF ~exists \/ dirs = {} THEN None
        ELSE LET files == entries[CHOOSE i \in dirs : TRUE].files
                 hits == {j \in 1..Len(files) : files[j].name = filename}
             IN  IF hits = {} THEN None ELSE files[CHOOSE j \in hits : TRUE]

\* pdf_path.exists() and pdf_path.is_file()
exists_and_is_file(file) == file # None /\ file.stat_ok /\ file.is_file

\* PurePath.suffix of a file name
suffix(name) ==
    LET dots == {i \in 1..Len(name) : name[i] = "."}
        i == CHOOSE d \in dots : \A e \in dots : e <= d
    IN  IF dots = {} THEN <<>>
        ELSE IF 1 < i /\ i < Len(name) THEN SubSeq(name, i, Len(name)) ELSE <<>>

\* get_pdf(folder_name, filename)
get_pdf(exists, entries, folder_name, filename) ==
    LET file == lookup(exists, entries, folder_name, filename)
        body == IF ~exists_and_is_file(file)
                THEN Raise(HTTPException(404, "PDF not found"))
                ELSE IF lower(suffix(filename)) # dot_pdf
                THEN Raise(HTTPException(400, "Not a PDF file"))
                ELSE Return([path |-> <<REPORTS_DIR, folder_name, filename>>,
                             media_type |-> "application/pdf"])
    IN  except_Exception(body)

\* get_pdf_info(folder_name, filename)
get_pdf_info(exists, entries, folder_name, filename) ==
    LET file == lookup(exists, entries, folder_name, filename)
        body == IF ~exists_and_is_file(file)
                THEN Raise(HTTPException(404, "PDF not found"))
                ELSE LET pdf_data == extract_pdf_metadata_and_text(folder_name, file)
                     IN  IF pdf_data = None
                         THEN Raise(HTTPException(500, "Could not process PDF"))
                         ELSE Return(pdf_data)
    IN  except_Exception(body)

(***************************************************************************)
(* The files and requests the model draws from.                            *)
(***************************************************************************)
File(name, is_file, stat_ok, st_size, st_ctime, st_mtime, pages, fails_at) ==
    [name |-> name, is_file |-> is_file, stat_ok |-> stat_ok, st_size |-> st_size,
     st_ctime |-> st_ctime, st_mtime |-> st_mtime, pages |-> pages,
     fails_at |-> fails_at]

Noon == 12 * 3600

fin == <<"f","i","n">>
hr == <<"h","r">>
nope == <<"n","o","p","e">>

rev_pdf == <<"r","e","v",".","p","d","f">>
big_pdf == <<"b","i","g",".","p","d","f">>
Rev2_pdf == <<"R","e","v","2",".","p","d","f">>
a_pdf == <<"a",".","p","d","f">>
b_pdf == <<"b",".","p","d","f">>
gone_pdf == <<"g","o","n","e",".","p","d","f">>
notes_txt == <<"n","o","t","e","s",".","t","x","t">>
zzz_pdf == <<"z","z","z",".","p","d","f">>
readme_txt == <<"r","e","a","d","m","e",".","t","x","t">>

\* "Total rev is up. rev! More REV here? " and "A rev again ok. rev five times. "
rev_page1 ==
    <<"T","o","t","a","l"," ","r","e","v"," ","i","s"," ","u","p",".">>
    \o <<" ","r","e","v","!">>
    \o <<" ","M","o","r","e"," ","R","E","V"," ","h","e","r","e","?"," ">>
rev_page2 ==
    <<"A"," ","r","e","v"," ","a","g","a","i","n"," ","o","k",".">>
    \o <<" ","r","e","v"," ","f","i","v","e"," ","t","i","m","e","s","."," ">>

\* one sentence of 245 characters with the word rev in the middle, and its
\* closing full stop
big_page == Pad(120, "x") \o <<" ","r","e","v"," ">> \o Pad(120, "y") \o <<".">>

\* a sentence of 202 characters where only blanks surround the word rev
faint_page ==
    <<"x">> \o Pad(100, " ") \o <<"r","e","v">> \o Pad(97, " ") \o <<"y",".">>

\* a sentence of 202 characters where only blanks surround the words rev up
sparse_page ==
    <<"x">> \o Pad(100, " ") \o <<"r","e","v"," ","u","p">> \o Pad(94, " ")
    \o <<"y","!">>

\* a sentence of 201 characters that ends with the word rev
end_page == Pad(197, "w") \o <<" ","r","e","v">>

\* 204 characters that begin with the word rev, and a mention of a.pdf
start_page ==
    <<"r","e","v"," ">> \o Pad(200, "z") \o <<" ","i","n"," ","a",".","p","d","f">>

\* "Total net rev . Costs up\n"
a_page == <<"T","o","t","a","l"," ","n","e","t"," ","r","e","v"," ","."," ","C","o","s","t","s"," ","u","p","\n">>

\* the files that may lie in the folder fin
FinFiles ==
    { File(rev_pdf, TRUE, TRUE, 1200, <<1, Noon>>, <<1, Noon>>,
           <<rev_page1, rev_page2>>, 0),
      File(big_pdf, TRUE, TRUE, 5000, <<1, Noon>>, <<2, Noon>>,
           <<big_page, faint_page, sparse_page, end_page>>, 0),
      \* a corrupt file: fitz raises when it reads the second page
      File(Rev2_pdf, TRUE, TRUE, 77, <<1, Noon - 1>>, <<1, Noon - 1>>,
           <<rev_page1, rev_page2>>, 2) }

\* the files that may lie in the folder hr
HrFiles ==
    { File(a_pdf, TRUE, TRUE, 300, <<2, 0>>, <<2, EndOfDay>>,
           <<a_page, start_page>>, 0),
      \* a file whose text is too short to give a snippet
      File(b_pdf, TRUE, TRUE, 40, <<1, Noon>>, <<1, Noon>>, << <<"r","e","v">> >>, 0),
      \* a file that is enumerated but cannot be stat-ed
      File(gone_pdf, TRUE, FALSE, 0, <<1, 0>>, <<1, 0>>, <<>>, 0),
      \* a file that is not a PDF: fitz raises after the first page
      File(notes_txt, TRUE, TRUE, 12, <<1, 0>>, <<1, 0>>, <<a_page, a_page>>, 2) }

\* the orders in which a directory is enumerated: at most MaxFiles members
\* of S, by ascending or by descending name
FileLists(S) ==
    LET ascending(fs) ==
            \A i \in 1..(Len(fs) - 1) : StrLess(fs[i].name, fs[i + 1].name)
        descending(fs) ==
            \A i \in 1..(Len(fs) - 1) : StrLess(fs[i + 1].name, fs[i].name)
    IN  UNION { {fs \in [1..n -> S] : ascending(fs) \/ descending(fs)} :
                n \in 0..MaxFiles }

\* a directory entry of REPORTS_DIR
Dir(name, files) == [name |-> name, is_dir |-> TRUE, files |-> files]

\* the folder of the given name: absent, or present with some of the files
FolderChoices(name, S) ==
    {<<>>} \cup { <<Dir(name, fs)>> : fs \in FileLists(S) }

\* an entry of REPORTS_DIR that is a plain file, not a directory
Plain(name) == [name |-> name, is_dir |-> FALSE, files |-> <<>>]

\* the contents of REPORTS_DIR: the entry enumerated first is the folder hr or
\* the plain file readme.txt, if either is there, and the folder fin comes last
Trees ==
    { h \o f : h \in FolderChoices(hr, HrFiles) \cup { <<Plain(readme_txt)>> },
                f \in FolderChoices(fin, FinFiles) }

Days == 1..MaxDay

\* the values of the target_datetime parameter
Targets ==
    {None, TargetString("empty", 0, 0, 0), TargetString("garbage", 0, 0, 0)}
    \cup { TargetString("naive", d, t, 0) : d \in Days, t \in {Noon - 1, Noon, EndOfDay} }
    \cup { TargetString("Z", d, t, 0) : d \in Days, t \in {Noon - 1, Noon} }
    \cup { TargetString("offset", d, Noon, 2) : d \in Days }

\* the readings of datetime.now()
Clock == { datetime(d, Noon, None) : d \in Days }

\* the values of the q parameter
Queries ==
    { <<>>, <<" ">>, <<"r","e","v">>, <<"R","e","v"," ">>,
      <<"u","p",".">>, dot_pdf }

FolderNames == {fin, hr, nope}
FileNames == {Rev2_pdf, gone_pdf, notes_txt, zzz_pdf}

(***************************************************************************)
(* The state machine: a request arrives, its endpoint function runs to     *)
(* completion, the response is sent.  No state is kept between requests.   *)
(***************************************************************************)
Init ==
    /\ reports_exists \in BOOLEAN
    /\ reports \in Trees
    /\ reports_exists = FALSE => reports = <<>>
    /\ pc = "idle"
    /\ request = None
    /\ response = None

\* the clock readings a handler records: None when it does not read the clock
ClockReadings(reads) == IF reads THEN Clock ELSE {None}

\* GET /api/
root ==
    /\ pc = "idle"
    /\ request' = [endpoint |-> "root"]
    /\ response' = http_response(Return([message |-> "PDF Reports Management API"]))
    /\ pc' = "done"
    /\ UNCHANGED <<reports_exists, reports>>

\* GET /api/folders
GetFolders ==
    /\ pc = "idle"
    /\ \E target_datetime \in Targets :
       \E now \in ClockReadings(~truthy(target_datetime)) :
          /\ request' = [endpoint |-> "get_folders",
                         target_datetime |-> target_datetime, now |-> now]
          /\ response' = http_response(
                 get_folders(reports_exists, reports, target_datetime, now))
    /\ pc' = "done"
    /\ UNCHANGED <<reports_exists, reports>>

\* GET /api/search
SearchPdfs ==
    /\ pc = "idle"
    /\ \E q \in Queries, target_datetime \in Targets :
       \E now \in ClockReadings(strip(q) # <<>> /\ ~truthy(target_datetime)) :
          /\ request' = [endpoint |-> "search_pdfs_endpoint", q |-> q,
                         target_datetime |-> target_datetime, now |-> now]
          /\ response' = http_response(
                 search_pdfs_endpoint(reports_exists, reports, q, target_datetime, now))
    /\ pc' = "done"
    /\ UNCHANGED <<reports_exists, reports>>

\* GET /api/pdf/{folder_name}/{filename}
GetPdf ==
    /\ pc = "idle"
    /\ \E folder_name \in FolderNames, filename \in FileNames :
          /\ request' = [endpoint |-> "get_pdf",
                         folder_name |-> folder_name, filename |-> filename]
          /\ response' = http_response(
                 get_pdf(reports_exists, reports, folder_name, filename))
    /\ pc' = "done"
    /\ UNCHANGED <<reports_exists, reports>>

\* GET /api/pdf-info/{folder_name}/{filename}
GetPdfInfo ==
    /\ pc = "idle"
    /\ \E folder_name \in FolderNames, filename \in FileNames :
          /\ request' = [endpoint |-> "get_pdf_info",
                         folder_name |-> folder_name, filename |-> filename]
          /\ response' = http_response(
                 get_pdf_info(reports_exists, reports, folder_name, filename))
    /\ pc' = "done"
    /\ UNCHANGED <<reports_exists, reports>>

\* the response is sent and the locals of the request are discarded
Respond ==
    /\ pc = "done"
    /\ pc' = "idle"
    /\ request' = None
    /\ response' = None
    /\ UNCHANGED <<reports_exists, reports>>

Next ==
    \/ root
    \/ GetFolders
    \/ SearchPdfs
    \/ GetPdf
    \/ GetPdfInfo
    \/ Respond

Spec == Init /\ [][Next]_vars

(***************************************************************************)
(* Properties.                                                             *)
(***************************************************************************)
\* a response to a request of the given endpoint is ready
Done(endpoint) == pc = "done" /\ request.endpoint = endpoint

\* the request carries a cutoff string that spells no ISO-8601 datetime
MalformedCutoff ==
    /\ request.target_datetime # None
    /\ request.target_datetime.form = "garbage"

\* q is empty or whitespace only
Blank(q) == \A i \in 1..Len(q) : q[i] \in Whitespace

\* C1: for list-folders and for search (with a query that is searched), a
\* cutoff string that is not an ISO-8601 instant gives the client-input
\* error 400 'Invalid datetime format', never the server fault 500.
C1_MalformedCutoffIs400 ==
    /\ (Done("get_folders") /\ MalformedCutoff)
          => /\ response.status_code = 400
             /\ response.detail = "Invalid datetime format"
    /\ (Done("search_pdfs_endpoint") /\ ~Blank(request.q) /\ MalformedCutoff)
          => /\ response.status_code = 400
             /\ response.detail = "Invalid datetime format"

\* the (folder_name, filename) pair of the request names an existing file
ResolvesToFile ==
    /\ reports_exists
    /\ \E i \in 1..Len(reports) :
          /\ reports[i].is_dir
          /\ reports[i].name = request.folder_name
          /\ \E j \in 1..Len(reports[i].files) :
                /\ reports[i].files[j].name = request.filename
                /\ reports[i].files[j].is_file
                /\ reports[i].files[j].stat_ok

\* C2: fetch-document-info and fetch-document-bytes answer 404 for a
\* (folder name, file name) pair that names no existing file.
C2_LookupMissIs404 ==
    ((Done("get_pdf") \/ Done("get_pdf_info")) /\ ~ResolvesToFile)
        => response.status_code = 404

\* the wall-clock date and time of the cutoff the request asks for: the
\* fields the target string spells or, without one, the clock's date at 23:59:59
EffectiveCutoff ==
    IF request.target_datetime # None /\ request.target_datetime.form # "empty"
    THEN [date |-> request.target_datetime.date, tod |-> request.target_datetime.tod]
    ELSE [date |-> request.now.date, tod |-> EndOfDay]

\* the datetime dt is at or before the cutoff c
AtOrBefore(dt, c) == dt.date < c.date \/ (dt.date = c.date /\ dt.tod <= c.tod)

\* the members of the list D modified at or before c, in the order of D
KeptUpTo(D, c) ==
    LET K == {j \in 1..Len(D) : AtOrBefore(D[j].modified_date, c)}
        order == SortedSeq(K)
    IN  [n \in 1..Len(order) |-> D[order[n]]]

\* what a scan of the file system finds
Scanned == scan_reports_directory(reports_exists, reports)

\* the elements of a list
Elems(seq) == {seq[i] : i \in 1..Len(seq)}

\* C3: filter_pdfs_by_date returns exactly the documents of its input with
\* modifiedAt <= cutoff, the cutoff itself included, in their original order:
\* each folder of a list-folders response holds that subsequence of the
\* folder's scanned documents.
C3_FilterKeepsUpToCutoffInOrder ==
    (Done("get_folders") /\ response.status_code = 200) =>
        /\ Len(response.body) = Len(Scanned)
        /\ \A i \in 1..Len(Scanned) :
              \E k \in 1..Len(response.body) :
                 /\ response.body[k].name = Scanned[i].name
                 /\ response.body[k].pdfs = KeptUpTo(Scanned[i].pdfs, EffectiveCutoff)

\* C3 witness: a folder keeps a document modified exactly at the cutoff and
\* drops one modified one second after it.
C3_Witness ==
    /\ Done("get_folders")
    /\ response.status_code = 200
    /\ \E k \in 1..Len(response.body), i \in 1..Len(Scanned) :
          /\ response.body[k].name = Scanned[i].name
          /\ \E d \in Elems(response.body[k].pdfs) :
                /\ d.modified_date.date = EffectiveCutoff.date
                /\ d.modified_date.tod = EffectiveCutoff.tod
          /\ \E d \in Elems(Scanned[i].pdfs) :
                /\ d.modified_date.date = EffectiveCutoff.date
                /\ d.modified_date.tod = EffectiveCutoff.tod + 1
                /\ d \notin Elems(response.body[k].pdfs)

\* the target strings that spell a datetime
ParsableTargets == {t \in Targets \ {None} : t.form \in {"naive", "Z", "offset"}}

\* the sum of the pdf_count fields of a list-folders body
RECURSIVE TotalCount(_)
TotalCount(body) ==
    IF body = <<>> THEN 0 ELSE Head(body).pdf_count + TotalCount(Tail(body))

\* the list-folders body for the same tree and the cutoff string t
FoldersAt(t) == get_folders(reports_exists, reports, t, None).value

\* the target string t spells an aware datetime
Aware(t) == t.form \in {"Z", "offset"}

\* the instant an aware target string denotes, in seconds (offsets are hours)
Instant(t) == t.date * 86400 + t.tod - t.offset * 3600

\* c1 <= c2 as Python orders two datetimes: two naive ones by their fields,
\* two aware ones by their instants (a naive and an aware one do not compare)
CutoffLeq(t1, t2) ==
    \/ ~Aware(t1) /\ ~Aware(t2) /\ AtOrBefore(t1, t2)
    \/ Aware(t1) /\ Aware(t2) /\ Instant(t1) <= Instant(t2)

\* C4 as stated: for cutoffs c1 <= c2 every document filter_pdfs_by_date
\* keeps for c1 it keeps for c2, so list-folders with the earlier cutoff never
\* reports a larger total document count on the same tree.
C4_MonotoneInCutoffOrder ==
    (Done("get_folders") /\ response.status_code = 200
        /\ request.target_datetime \in ParsableTargets) =>
        LET scanned == Scanned
            later == fromisoformat(replace_Z(request.target_datetime)).value
        IN  \A t \in ParsableTargets :
                CutoffLeq(t, request.target_datetime) =>
                    LET earlier == FoldersAt(t)
                    IN  /\ \A i \in 1..Len(scanned) :
                              Elems(filter_pdfs_by_date(scanned[i].pdfs,
                                        fromisoformat(replace_Z(t)).value))
                              \subseteq
                              Elems(filter_pdfs_by_date(scanned[i].pdfs, later))
                        /\ TotalCount(earlier) <= TotalCount(response.body)

\* C4 amended: for cutoffs c1 <= c2 in the order of their wall-clock fields,
\* the UTC offset dropped as the filter drops it, every document
\* filter_pdfs_by_date keeps for c1 it keeps for c2, so list-folders with the
\* earlier such cutoff never reports a larger total document count on the
\* same tree.
C4_FilterIsMonotone ==
    (Done("get_folders") /\ response.status_code = 200) =>
        LET scanned == Scanned
            later == datetime(EffectiveCutoff.date, EffectiveCutoff.tod, None)
        IN  \A t \in ParsableTargets :
                AtOrBefore(t, EffectiveCutoff) =>
                    LET earlier == FoldersAt(t)
                    IN  /\ \A i \in 1..Len(scanned) :
                              Elems(filter_pdfs_by_date(scanned[i].pdfs,
                                                        datetime(t.date, t.tod, None)))
                              \subseteq
                              Elems(filter_pdfs_by_date(scanned[i].pdfs, later))
                        /\ \A k \in 1..Len(response.body) :
                              Elems(earlier[k].pdfs) \subseteq Elems(response.body[k].pdfs)
                        /\ TotalCount(earlier) <= TotalCount(response.body)

\* C4 witness: an earlier cutoff reports some documents, the later one more.
C4_Witness ==
    /\ Done("get_folders")
    /\ response.status_code = 200
    /\ \E t \in ParsableTargets :
          /\ AtOrBefore(t, EffectiveCutoff)
          /\ LET earlier == TotalCount(FoldersAt(t))
             IN  0 < earlier /\ earlier < TotalCount(response.body)

\* a is lexicographically at or before b
LexLeq(a, b) == a = b \/ StrLess(a, b)

\* C5: the list search returns is in relevance order: of two adjacent results
\* the first has the greater matchCount, or the same matchCount and a file
\* name lexicographically at or before the second's.
C5_ResultsInRelevanceOrder ==
    (Done("search_pdfs_endpoint") /\ response.status_code = 200) =>
        \A k \in 1..(Len(response.body) - 1) :
            \/ response.body[k].match_count > response.body[k + 1].match_count
            \/ /\ response.body[k].match_count = response.body[k + 1].match_count
               /\ LexLeq(response.body[k].pdf.filename, response.body[k + 1].pdf.filename)

\* C5 witness: three results, one pair ordered by count, one tie ordered by
\* file name.
C5_Witness ==
    /\ Done("search_pdfs_endpoint")
    /\ response.status_code = 200
    /\ Len(response.body) >= 3
    /\ \E k \in 1..(Len(response.body) - 1) :
          response.body[k].match_count > response.body[k + 1].match_count
    /\ \E k \in 1..(Len(response.body) - 1) :
          /\ response.body[k].match_count = response.body[k + 1].match_count
          /\ response.body[k].pdf.filename # response.body[k + 1].pdf.filename

\* the document mentions q, in its file name or in its text
Mentions(pdf, q) ==
    \/ contains(lower(pdf.filename), lower(q))
    \/ contains(lower(pdf.text_content), lower(q))

\* C6: every search result has matchCount >= 1 and matchCount equal to the
\* number of its match entries, and belongs to a document that mentions the
\* query: a document with no recorded match gives no result.
C6_MatchFloor ==
    (Done("search_pdfs_endpoint") /\ response.status_code = 200) =>
        \A k \in 1..Len(response.body) :
            /\ response.body[k].match_count >= 1
            /\ response.body[k].match_count = Len(response.body[k].matches)
            /\ Mentions(response.body[k].pdf, request.q)

\* C6 witness: a result with several entries, next to a searched document
\* whose text holds the query but that gives no result.
C6_Witness ==
    /\ Done("search_pdfs_endpoint")
    /\ response.status_code = 200
    /\ \E k \in 1..Len(response.body) : response.body[k].match_count >= 2
    /\ \E d \in Elems(all_pdfs_of(Scanned)) :
          /\ AtOrBefore(d.modified_date, EffectiveCutoff)
          /\ Mentions(d, request.q)
          /\ \A k \in 1..Len(response.body) : response.body[k].pdf # d

\* the number of entries of a matches list that begin with "Content: "
ContentEntries(matches) ==
    Cardinality({i \in 1..Len(matches) :
                    SubSeq(matches[i], 1, Len(ContentPrefix)) = ContentPrefix})

\* C7: no search result holds more than 3 entries prefixed "Content: ", with
\* or without a Filename entry, so matchCount <= 4.
C7_ContentCap ==
    (Done("search_pdfs_endpoint") /\ response.status_code = 200) =>
        \A k \in 1..Len(response.body) :
            /\ ContentEntries(response.body[k].matches) <= 3
            /\ response.body[k].match_count <= 4

\* C7 witness: a result with a Filename entry and 3 Content entries for a
\* document with more than 3 segments that hold the query.
C7_Witness ==
    /\ Done("search_pdfs_endpoint")
    /\ response.status_code = 200
    /\ \E k \in 1..Len(response.body) :
          /\ response.body[k].match_count = 4
          /\ ContentEntries(response.body[k].matches) = 3
          /\ LET segments == re_split(response.body[k].pdf.text_content)
             IN  Cardinality({n \in 1..Len(segments) :
                     contains(lower(segments[n]), lower(request.q))}) > 3

\* C8: search_pdfs returns the empty list for an empty or whitespace-only
\* query whatever the documents, and the search endpoint answers such a
\* query with an empty list and no error.
C8_BlankQueryGivesEmptyList ==
    /\ (Done("search_pdfs_endpoint") /\ Blank(request.q)) =>
          /\ response.status_code = 200
          /\ response.body = <<>>
    /\ \A q \in Queries :
          Blank(q) => search_pdfs(all_pdfs_of(Scanned), q) = <<>>

\* C8 witness: a whitespace query answered with an empty list although a
\* scanned document holds that whitespace and the cutoff string is malformed.
C8_Witness ==
    /\ Done("search_pdfs_endpoint")
    /\ request.q = <<" ">>
    /\ MalformedCutoff
    /\ \E d \in Elems(all_pdfs_of(Scanned)) : contains(d.text_content, request.q)
    /\ response.status_code = 200
    /\ response.body = <<>>

\* C9: for a non-blank query every match entry of every search result, the
\* Filename entry and each Content snippet, contains the query as a
\* case-insensitive substring.
C9_EntriesContainQuery ==
    (Done("search_pdfs_endpoint") /\ response.status_code = 200 /\ ~Blank(request.q)) =>
        \A k \in 1..Len(response.body) :
            \A n \in 1..Len(response.body[k].matches) :
                contains(lower(response.body[k].matches[n]), lower(request.q))

\* a .pdf file that stat() reads and fitz fails to parse
CorruptPdf(f) == endswith(f.name, dot_pdf) /\ f.stat_ok /\ f.fails_at > 0

\* a .pdf file that stat() and fitz read
HealthyPdf(f) == endswith(f.name, dot_pdf) /\ f.stat_ok /\ f.fails_at = 0

\* the document d carries the file's name, size and timestamps
MetadataOf(d, f) ==
    /\ d.filename = f.name
    /\ d.size = f.st_size
    /\ d.created_date.date = f.st_ctime[1] /\ d.created_date.tod = f.st_ctime[2]
    /\ d.modified_date.date = f.st_mtime[1] /\ d.modified_date.tod = f.st_mtime[2]

\* C10: a .pdf file whose text cannot be parsed still yields a Document with
\* empty text and the file's size and timestamps, kept in its folder's list;
\* the scan is not aborted: list-folders succeeds and the folder's readable
\* files are listed with their text.
C10_CorruptPdfIsKeptWithEmptyText ==
    (Done("get_folders") /\ ~MalformedCutoff) =>
        /\ response.status_code = 200
        /\ \A i \in 1..Len(reports) :
              reports[i].is_dir =>
                 \E k \in 1..Len(response.body) :
                    /\ response.body[k].name = reports[i].name
                    /\ \A f \in Elems(reports[i].files) :
                          AtOrBefore([date |-> f.st_mtime[1], tod |-> f.st_mtime[2]],
                                     EffectiveCutoff) =>
                             /\ CorruptPdf(f) =>
                                   \E d \in Elems(response.body[k].pdfs) :
                                      MetadataOf(d, f) /\ d.text_content = <<>>
                             /\ HealthyPdf(f) =>
                                   \E d \in Elems(response.body[k].pdfs) :
                                      /\ MetadataOf(d, f)
                                      /\ d.text_content = strip(Concat(f.pages))

\* C10 witness: a folder listed with a corrupt file, some of whose pages were
\* read before the failure, as a Document with empty text beside a Document
\* with text.
C10_Witness ==
    /\ Done("get_folders")
    /\ response.status_code = 200
    /\ \E i \in 1..Len(reports), k \in 1..Len(response.body) :
          /\ response.body[k].name = reports[i].name
          /\ \E f \in Elems(reports[i].files) :
                /\ CorruptPdf(f)
                /\ f.fails_at > 1
                /\ f.pages # <<>>
                /\ \E d \in Elems(response.body[k].pdfs) :
                      d.filename = f.name /\ d.text_content = <<>>
          /\ \E d \in Elems(response.body[k].pdfs) : d.text_content # <<>>


\* REPORTS_DIR is missing, or no entry of it is a directory
NoSubdirectories ==
    ~reports_exists \/ \A i \in 1..Len(reports) : ~reports[i].is_dir

\* C11: if the reports root directory does not exist or contains no
\* subdirectories, scan_reports_directory returns an empty folder mapping and
\* a list-folders call with a well-formed cutoff answers 200 with an empty
\* list: no error is raised.
C11_NoSubdirectoriesGivesEmptyList ==
    /\ NoSubdirectories => Scanned = <<>>
    /\ (Done("get_folders") /\ ~MalformedCutoff /\ NoSubdirectories)
          => /\ response.status_code = 200
             /\ response.body = <<>>

\* list-folders has answered for a root that exists and holds only a plain file
C11_Witness ==
    /\ Done("get_folders")
    /\ reports_exists
    /\ reports = <<Plain(readme_txt)>>
    /\ response.status_code = 200
    /\ response.body = <<>>

\* list-folders has answered for a root that does not exist
C11_WitnessMissingRoot ==
    /\ Done("get_folders")
    /\ ~reports_exists
    /\ response.status_code = 200
    /\ response.body = <<>>

\* the directories directly under REPORTS_DIR, in enumeration order
Directories ==
    LET is_dir(e) == e.is_dir
    IN  IF reports_exists THEN SelectSeq(reports, is_dir) ELSE <<>>

\* the names of the files of a directory that glob("*.pdf") yields and that
\* can be stat-ed, in enumeration order
StatablePdfNames(files) ==
    LET ok(f) == endswith(f.name, dot_pdf) /\ f.stat_ok
        kept == SelectSeq(files, ok)
    IN  [j \in 1..Len(kept) |-> kept[j].name]

\* the file names of a list of scanned documents
FilenamesOf(pdfs) == [j \in 1..Len(pdfs) |-> pdfs[j].filename]

\* some enumerated PDF of some directory cannot be stat-ed
SomeFileVanished ==
    \E i \in 1..Len(Directories) :
       \E j \in 1..Len(Directories[i].files) :
          /\ endswith(Directories[i].files[j].name, dot_pdf)
          /\ ~Directories[i].files[j].stat_ok

\* C12: a file that cannot be stat-ed during a scan is alone excluded from
\* its folder's list: the scan has one item per directory, the folder of the
\* failed file included, and each item lists every other enumerated PDF of
\* its directory in order; a list-folders call over such a tree completes
\* with 200 and names every directory.
C12_UnreadableFileAloneIsSkipped ==
    LET folders == Scanned
        dirs == Directories
    IN  /\ Len(folders) = Len(dirs)
        /\ \A i \in 1..Len(dirs) :
              /\ folders[i].name = dirs[i].name
              /\ FilenamesOf(folders[i].pdfs) = StatablePdfNames(dirs[i].files)
        /\ (Done("get_folders") /\ ~MalformedCutoff /\ SomeFileVanished)
              => /\ response.status_code = 200
                 /\ {response.body[k].name : k \in 1..Len(response.body)}
                       = {dirs[i].name : i \in 1..Len(dirs)}

\* list-folders has answered for a tree where gone.pdf, which cannot be
\* stat-ed, is enumerated before b.pdf in hr: hr is listed with b.pdf alone
C12_Witness ==
    /\ Done("get_folders")
    /\ SomeFileVanished
    /\ response.status_code = 200
    /\ \E i \in 1..Len(Directories) :
          /\ Directories[i].name = hr
          /\ Len(Directories[i].files) = 2
          /\ Directories[i].files[1].name = gone_pdf
          /\ Directories[i].files[2].name = b_pdf
    /\ \E k \in 1..Len(response.body) :
          /\ response.body[k].name = hr
          /\ FilenamesOf(response.body[k].pdfs) = <<b_pdf>>

\* list-folders has answered for a tree whose folder hr holds gone.pdf only:
\* hr is listed with no document
C12_WitnessEmptiedFolder ==
    /\ Done("get_folders")
    /\ response.status_code = 200
    /\ \E i \in 1..Len(Directories) :
          /\ Directories[i].name = hr
          /\ Len(Directories[i].files) = 1
          /\ Directories[i].files[1].name = gone_pdf
    /\ \E k \in 1..Len(response.body) :
          /\ response.body[k].name = hr
          /\ response.body[k].pdfs = <<>>

\* C13: in every list-folders response each folder's documentCount equals
\* the length of its documents list, and every scanned folder is listed, a
\* folder whose documents all lie after the cutoff with documentCount 0 and
\* an empty list.
C13_CountIsLengthOfDocuments ==
    (Done("get_folders") /\ response.status_code = 200) =>
        LET folders == Scanned
        IN  /\ \A k \in 1..Len(response.body) :
                  response.body[k].pdf_count = Len(response.body[k].pdfs)
            /\ \A i \in 1..Len(folders) :
                  \E k \in 1..Len(response.body) :
                     /\ response.body[k].name = folders[i].name
                     /\ (\A j \in 1..Len(folders[i].pdfs) :
                            ~AtOrBefore(folders[i].pdfs[j].modified_date, EffectiveCutoff))
                           => /\ response.body[k].pdf_count = 0
                              /\ response.body[k].pdfs = <<>>

\* list-folders has answered with fin listed empty although its scan holds a
\* document, and with another folder that keeps a document
C13_Witness ==
    /\ Done("get_folders")
    /\ response.status_code = 200
    /\ \E i \in 1..Len(Scanned) :
          /\ Scanned[i].name = fin
          /\ Scanned[i].pdfs # <<>>
    /\ \E k \in 1..Len(response.body) :
          /\ response.body[k].name = fin
          /\ response.body[k].pdf_count = 0
          /\ response.body[k].pdfs = <<>>
    /\ \E k \in 1..Len(response.body) :
          /\ response.body[k].pdf_count = 1
          /\ Len(response.body[k].pdfs) = 1

\* C14: search filters by the cutoff before it searches: every result of a
\* search response is a scanned document modified at or before the effective
\* cutoff, which is the cutoff the request spells (compared as a naive
\* wall-clock value) or, when the request spells none, the clock's date at
\* 23:59:59.
C14_ResultsAreAtOrBeforeCutoff ==
    (Done("search_pdfs_endpoint") /\ response.status_code = 200) =>
        \A k \in 1..Len(response.body) :
           /\ response.body[k].pdf \in Elems(all_pdfs_of(Scanned))
           /\ AtOrBefore(response.body[k].pdf.modified_date, EffectiveCutoff)

\* search has answered without a cutoff in the request: a document modified
\* on the clock's date is among the results, and a scanned document that
\* mentions the query but is modified on a later date is not
C14_Witness ==
    /\ Done("search_pdfs_endpoint")
    /\ response.status_code = 200
    /\ request.target_datetime = None
    /\ \E k \in 1..Len(response.body) :
          response.body[k].pdf.modified_date.date = request.now.date
    /\ \E d \in Elems(all_pdfs_of(Scanned)) :
          /\ Mentions(d, request.q)
          /\ d.modified_date.date > request.now.date
          /\ \A k \in 1..Len(response.body) : response.body[k].pdf # d

\* search has answered with a cutoff in the request that leaves out a scanned
\* document mentioning the query and modified one second after the cutoff
C14_WitnessSuppliedCutoff ==
    /\ Done("search_pdfs_endpoint")
    /\ response.status_code = 200
    /\ response.body # <<>>
    /\ request.target_datetime # None
    /\ request.target_datetime.form = "naive"
    /\ \E d \in Elems(all_pdfs_of(Scanned)) :
          /\ Mentions(d, request.q)
          /\ d.modified_date.date = request.target_datetime.date
          /\ d.modified_date.tod = request.target_datetime.tod + 1
          /\ \A k \in 1..Len(response.body) : response.body[k].pdf # d

\* the index, counted from 0, of the first case-insensitive occurrence of q
\* in the segment
FirstOccurrence(segment, q) ==
    LET low == lower(segment) \o <<>>
        term == lower(q) \o <<>>
        at(p) == \A k \in 1..Len(term) : low[p + k] = term[k]
        occurrences == {p \in 0..(Len(low) - Len(term)) : at(p)}
    IN  CHOOSE p \in occurrences : \A r \in occurrences : p <= r

\* the trimmed characters of the segment from index from up to index to
\* (counted from 0, to excluded), with "..." in front when from is not the
\* segment's beginning and "..." behind when to is not the segment's end
Excerpt(segment, from, to) ==
    LET window == strip(SubSeq(segment, from + 1, to))
        left == IF from > 0 THEN Ellipsis \o window ELSE window
    IN  IF to < Len(segment) THEN left \o Ellipsis ELSE left

\* the snippet of a segment containing q when the window reaches 100
\* characters before the occurrence and 100 characters after it
SnippetAroundOccurrence(segment, q) ==
    IF Len(segment) <= SentenceLimit
    THEN strip(segment)
    ELSE LET pos == FirstOccurrence(segment, q)
         IN  Excerpt(segment, Max(0, pos - ContextRadius),
                     Min(Len(segment), pos + Len(q) + ContextRadius))

\* the snippet of a segment containing q when the window reaches 100
\* characters before the first character of the occurrence and 100
\* characters from that character on, the occurrence included
SnippetAroundPosition(segment, q) ==
    IF Len(segment) <= SentenceLimit
    THEN strip(segment)
    ELSE LET pos == FirstOccurrence(segment, q)
         IN  Excerpt(segment, Max(0, pos - ContextRadius),
                     Min(Len(segment), pos + ContextRadius))

\* the segments of the document's text that contain q, in any case
SegmentsWith(pdf, q) ==
    {seg \in Elems(re_split(pdf.text_content)) : contains(lower(seg), lower(q))}

\* the "Content: " entries of all results of the response
ResponseContentEntries ==
    { <<k, m>> \in (1..Len(response.body)) \X (1..(MaxContentMatches + 1)) :
         /\ m <= Len(response.body[k].matches)
         /\ startswith(response.body[k].matches[m], ContentPrefix) }

\* the snippet of a "Content: " entry
SnippetOf(entry) == SubSeq(entry, Len(ContentPrefix) + 1, Len(entry))

\* C15 as stated: every snippet of a search response is, for some segment of
\* its document that contains the query, the trimmed segment when the
\* segment has at most 200 characters, and otherwise the trimmed window of up
\* to 100 characters before and 100 characters after the first occurrence of
\* the query, with "..." in front exactly when the window does not start at
\* the segment's beginning and behind exactly when it does not end at its end.
C15_SnippetSpansOccurrence ==
    (Done("search_pdfs_endpoint") /\ response.status_code = 200) =>
        \A e \in ResponseContentEntries :
           LET result == response.body[e[1]]
           IN  \E seg \in SegmentsWith(result.pdf, request.q) :
                  SnippetOf(result.matches[e[2]])
                     = SnippetAroundOccurrence(seg, request.q)

\* C15: every snippet of a search response is, for some segment of its
\* document that contains the query, the trimmed segment when the segment
\* has at most 200 characters, and otherwise the trimmed window from 100
\* characters before the first character of the first occurrence of the
\* query to 100 characters from that character on (clamped to the segment),
\* with "..." in front exactly when the window does not start at the
\* segment's beginning and behind exactly when it does not end at its end.
C15_SnippetSpansPosition ==
    (Done("search_pdfs_endpoint") /\ response.status_code = 200) =>
        \A e \in ResponseContentEntries :
           LET result == response.body[e[1]]
           IN  \E seg \in SegmentsWith(result.pdf, request.q) :
                  SnippetOf(result.matches[e[2]])
                     = SnippetAroundPosition(seg, request.q)

\* search has answered with a snippet that has "..." at both ends, one that
\* has it in front only, one that has it behind only and one without it
C15_Witness ==
    /\ Done("search_pdfs_endpoint")
    /\ response.status_code = 200
    /\ \E e \in ResponseContentEntries :
          LET snippet == SnippetOf(response.body[e[1]].matches[e[2]])
          IN  startswith(snippet, Ellipsis) /\ endswith(snippet, Ellipsis)
    /\ \E e \in ResponseContentEntries :
          LET snippet == SnippetOf(response.body[e[1]].matches[e[2]])
          IN  startswith(snippet, Ellipsis) /\ ~endswith(snippet, Ellipsis)
    /\ \E e \in ResponseContentEntries :
          LET snippet == SnippetOf(response.body[e[1]].matches[e[2]])
          IN  ~startswith(snippet, Ellipsis) /\ endswith(snippet, Ellipsis)
    /\ \E e \in ResponseContentEntries :
          LET snippet == SnippetOf(response.body[e[1]].matches[e[2]])
          IN  ~startswith(snippet, Ellipsis) /\ ~endswith(snippet, Ellipsis)

\* the positions of the segments of the document's text that contain q and
\* whose snippet, trimmed, has more than 10 characters
Substantial(pdf, q) ==
    LET segments == re_split(pdf.text_content)
    IN  {i \in 1..Len(segments) :
            /\ contains(lower(segments[i]), lower(q))
            /\ Len(strip(SnippetAroundPosition(segments[i], q))) > MinContextLen}

\* the document has a segment of at most 200 characters that contains q and
\* whose snippet, trimmed, has 10 characters or fewer
HasShortNoise(pdf, q) ==
    \E seg \in SegmentsWith(pdf, q) :
       /\ Len(seg) <= SentenceLimit
       /\ Len(strip(SnippetAroundPosition(seg, q))) <= MinContextLen

\* the document has a segment of more than 200 characters that contains q
\* and whose snippet, trimmed, has 10 characters or fewer
HasWindowedNoise(pdf, q) ==
    \E seg \in SegmentsWith(pdf, q) :
       /\ Len(seg) > SentenceLimit
       /\ Len(strip(SnippetAroundPosition(seg, q))) <= MinContextLen

\* C16: a snippet whose trimmed text has 10 characters or fewer is never
\* recorded and does not increase matchCount: in a search response every
\* recorded "Content: " snippet has trimmed length greater than 10, and a
\* result's matchCount is one for a file-name entry, if it has one, plus the
\* number of its document's segments that contain the query and give a
\* snippet longer than 10 characters, capped at 3; short and windowed
\* snippets alike.
C16_NoiseIsNeitherRecordedNorCounted ==
    (Done("search_pdfs_endpoint") /\ response.status_code = 200) =>
        /\ \A e \in ResponseContentEntries :
              Len(strip(SnippetOf(response.body[e[1]].matches[e[2]]))) > MinContextLen
        /\ \A k \in 1..Len(response.body) :
              LET result == response.body[k]
                  by_name == IF startswith(result.matches[1], FilenamePrefix)
                             THEN 1 ELSE 0
              IN  /\ ContentEntries(result.matches)
                        = Min(MaxContentMatches,
                              Cardinality(Substantial(result.pdf, request.q)))
                  /\ result.match_count = by_name + ContentEntries(result.matches)

\* search has answered over documents with noise of both kinds: one whose
\* only segment with the query is short noise gives no result, and one with
\* windowed noise has its three other snippets recorded and counted
C16_Witness ==
    /\ Done("search_pdfs_endpoint")
    /\ response.status_code = 200
    /\ ~Blank(request.q)
    /\ \E d \in Elems(all_pdfs_of(Scanned)) :
          /\ AtOrBefore(d.modified_date, EffectiveCutoff)
          /\ HasShortNoise(d, request.q)
          /\ \A k \in 1..Len(response.body) : response.body[k].pdf # d
    /\ \E k \in 1..Len(response.body) :
          /\ HasWindowedNoise(response.body[k].pdf, request.q)
          /\ ContentEntries(response.body[k].matches) = MaxContentMatches
          /\ response.body[k].match_count = MaxContentMatches
          /\ Cardinality(SegmentsWith(response.body[k].pdf, request.q))
                = MaxContentMatches + 1

\* q contains one of the characters '.', '!' and '?'
HasDelimiter(q) == \E i \in 1..Len(q) : q[i] \in Delimiters

\* C17: a query that contains '.', '!' or '?' never produces a "Content: "
\* entry, even when it occurs in a document's text: every result of a search
\* for such a query belongs to a document whose file name contains the query
\* and holds the "Filename: " entry alone.
C17_DelimiterQueryMatchesFileNamesOnly ==
    (Done("search_pdfs_endpoint") /\ response.status_code = 200
        /\ HasDelimiter(request.q)) =>
        \A k \in 1..Len(response.body) :
           /\ ContentEntries(response.body[k].matches) = 0
           /\ contains(lower(response.body[k].pdf.filename), lower(request.q))
           /\ response.body[k].matches
                 = <<FilenamePrefix \o response.body[k].pdf.filename>>
           /\ response.body[k].match_count = 1

\* search for a query with a delimiter has answered with a document whose
\* text contains the query: its result holds the "Filename: " entry alone
C17_Witness ==
    /\ Done("search_pdfs_endpoint")
    /\ response.status_code = 200
    /\ HasDelimiter(request.q)
    /\ \E k \in 1..Len(response.body) :
          /\ contains(lower(response.body[k].pdf.text_content), lower(request.q))
          /\ response.body[k].matches
                = <<FilenamePrefix \o response.body[k].pdf.filename>>

\* search for a query with a delimiter has answered without a result for a
\* document whose text contains the query and whose file name does not
C17_WitnessAbsent ==
    /\ Done("search_pdfs_endpoint")
    /\ response.status_code = 200
    /\ HasDelimiter(request.q)
    /\ \E d \in Elems(all_pdfs_of(Scanned)) :
          /\ AtOrBefore(d.modified_date, EffectiveCutoff)
          /\ contains(lower(d.text_content), lower(request.q))
          /\ ~contains(lower(d.filename), lower(request.q))
          /\ \A k \in 1..Len(response.body) : response.body[k].pdf # d

=============================================================================
